---- MODULE Spec2Model ----
(***************************************************************************)
(* Antares backend: andamento lifecycle (AndamentosService), the           *)
(* final-response flow (ProcessosService.criarRespostaFinal) and the       *)
(* read operations of ProcessosService (lists, counts, look-ups), modelled *)
(* over the two Prisma tables `processos` and `andamentos`.                *)
(*                                                                         *)
(* Encoding of values                                                      *)
(*   stored dates and texts are integers, NULL stands for SQL NULL;        *)
(*   a JSON payload field is a record [k, v]:                              *)
(*      k = "undef" (field omitted), "null", "iso" (a string that          *)
(*      `new Date` parses, v = its timestamp) or "txt" (any other string,  *)
(*      v = text id, 0 being the empty string); unit labels and status      *)
(*      values travel as k = "unid" and k = "enum" with a string v.        *)
(***************************************************************************)
EXTENDS Integers, Sequences, FiniteSets, TLC

VARIABLES processos, andamentos, now, last, consulta, unidades, usuarios, pedidos

vars ==
  <<processos, andamentos, now, last, consulta, unidades, usuarios, pedidos>>

----------------------------------------------------------------------------
(* Bounds *)

MaxAndamentos == 1
MaxProcessos == 2
MaxTime == 1
NumTexts == 2

(* Program constants and fixed universes *)

DayLen == 2
NULL == -1
NaN == -3
KEEP == -9
NULLSTR == "null"
KEEPSTR == "keep"

ProcIds == {1}
NoProc == 0
IdVazio == -2
Usuarios == {1, 2}
Unidades == {"A", "B"}
Textos == 1 .. NumTexts
Status == {"EM_ANDAMENTO", "PRORROGADO", "CONCLUIDO"}
Permissoes == {"DEV", "ADM", "TEC", "USR"}
UnidadeIds == {"U1", "U2"}

----------------------------------------------------------------------------
(* JSON payload values *)

Undef == [k |-> "undef", v |-> 0]
Null == [k |-> "null", v |-> 0]
Iso(t) == [k |-> "iso", v |-> t]
Txt(s) == [k |-> "txt", v |-> s]

\* JavaScript truthiness of an optional string field
Truthy(x) == x.k = "iso" \/ (x.k = "txt" /\ x.v # 0)

\* new Date(x).getTime()
NewDate(x) ==
  CASE x.k = "iso" -> x.v
    [] x.k = "null" -> 0
    [] OTHER -> NaN

\* mutant: the response date is compared with the current instant
FimDoDia_Agora(t) == t

\* hoje.setHours(0, 0, 0, 0): the first instant of the day of t
InicioDoDia(t) == (t \div DayLen) * DayLen

\* hoje.setHours(23, 59, 59, 999): the last instant of the day of t
FimDoDia(t) == (t \div DayLen) * DayLen + (DayLen - 1)

----------------------------------------------------------------------------
(* UpdateAndamentoDto (all fields optional) *)

EmptyDto ==
  [origem |-> Undef, destino |-> Undef, data_envio |-> Undef, prazo |-> Undef,
   observacao |-> Undef, prorrogacao |-> Undef, resposta |-> Undef,
   conclusao |-> Undef, status |-> Undef]

\* the status rule documented on UpdateAndamentoDto
StatusDerivado(prorrogacao, resposta) ==
  IF resposta # NULL THEN "CONCLUIDO"
  ELSE IF prorrogacao # NULL THEN "PRORROGADO"
  ELSE "EM_ANDAMENTO"

----------------------------------------------------------------------------
(* Results of a handler: the database after it and its outcome *)

Db(ps, as) == [processos |-> ps, andamentos |-> as]

Res(db, out, criados) == [db |-> db, out |-> out, criados |-> criados]

Falha(db, out) == Res(db, out, 0)

\* AndamentosService.buscarPorId: "" for a hit, else the exception
BuscarPorId(db, id) ==
  IF id = 0 THEN "BadRequest"
  ELSE IF id \notin DOMAIN db.andamentos THEN "NotFound"
  ELSE IF ~db.andamentos[id].ativo THEN "NotFound"
  ELSE "ok"

----------------------------------------------------------------------------
(* AndamentosService.criar *)

AndamentoCriar(db, dto, usuario_id) ==
  IF dto.processo_id \notin DOMAIN db.processos THEN Falha(db, "NotFound")
  ELSE IF usuario_id \notin Usuarios THEN Falha(db, "NotFound")
  ELSE IF (Truthy(dto.prazo) /\ NewDate(dto.prazo) = NaN)
          \/ (Truthy(dto.data_envio) /\ NewDate(dto.data_envio) = NaN)
       THEN Falha(db, "Internal")
  ELSE
    LET novo ==
          [processo_id |-> dto.processo_id,
           origem |-> dto.origem,
           destino |-> dto.destino,
           data_envio |-> IF Truthy(dto.data_envio) THEN NewDate(dto.data_envio) ELSE NULL,
           prazo |-> IF Truthy(dto.prazo) THEN NewDate(dto.prazo) ELSE NULL,
           prorrogacao |-> NULL,
           resposta |-> NULL,
           status |-> IF dto.status.k = "enum" THEN dto.status.v ELSE "EM_ANDAMENTO",
           observacao |-> IF dto.observacao.k = "txt" THEN dto.observacao.v ELSE NULL,
           usuario_id |-> usuario_id,
           usuario_prorrogacao_id |-> NULL,
           ativo |-> TRUE]
    IN Res(Db(db.processos, Append(db.andamentos, novo)), "ok", 1)

----------------------------------------------------------------------------
(* AndamentosService.atualizar *)

\* lines 291-307: `conclusao` is a synonym of `resposta`; a `resposta` that
\* is not a date becomes the `observacao` and is dropped
Normaliza(dto) ==
  LET r1 == IF dto.conclusao.k \notin {"undef", "null"} THEN dto.conclusao
            ELSE dto.resposta
      texto == r1.k \notin {"undef", "null"} /\ NewDate(r1) = NaN
  IN [dto EXCEPT
        !.resposta = IF texto THEN Undef ELSE r1,
        !.observacao = IF texto /\ ~Truthy(dto.observacao) THEN r1
                       ELSE dto.observacao]

\* mutant: clearing prorrogacao does not reset the status
StatusProrrogacao_NoReset(d) ==
  IF d.prorrogacao.k \in {"undef", "null"} THEN KEEPSTR
  ELSE (IF ~Truthy(d.resposta) THEN "PRORROGADO" ELSE KEEPSTR)

\* mutant: `== null` instead of `=== null`, an omitted prorrogacao resets too
StatusProrrogacao_Loose(d) ==
  IF d.prorrogacao.k \in {"undef", "null"}
  THEN (IF ~Truthy(d.resposta) THEN "EM_ANDAMENTO" ELSE KEEPSTR)
  ELSE (IF ~Truthy(d.resposta) THEN "PRORROGADO" ELSE KEEPSTR)

\* the status the prorrogacao block (lines 327-344) leaves in `data`
StatusProrrogacao(d) ==
  IF d.prorrogacao.k = "undef" THEN KEEPSTR
  ELSE IF d.prorrogacao.k = "null"
       THEN (IF ~Truthy(d.resposta) THEN "EM_ANDAMENTO" ELSE KEEPSTR)
       ELSE (IF ~Truthy(d.resposta) THEN "PRORROGADO" ELSE KEEPSTR)

\* mutant: an extension in the same payload takes priority over the resposta
StatusResposta_ProrrogacaoFirst(d, anterior) ==
  IF d.resposta.k = "undef" THEN anterior
  ELSE IF d.resposta.k = "null"
       THEN (IF ~Truthy(d.prorrogacao) THEN "EM_ANDAMENTO" ELSE anterior)
       ELSE (IF Truthy(d.prorrogacao) THEN anterior ELSE "CONCLUIDO")

\* mutant: clearing resposta does not reset the status
StatusResposta_NoReset(d, anterior) ==
  IF d.resposta.k \in {"undef", "null"} THEN anterior ELSE "CONCLUIDO"

\* the status after the resposta block (lines 346-366)
StatusResposta(d, anterior) ==
  IF d.resposta.k = "undef" THEN anterior
  ELSE IF d.resposta.k = "null"
       THEN (IF ~Truthy(d.prorrogacao) THEN "EM_ANDAMENTO" ELSE anterior)
       ELSE "CONCLUIDO"

\* mutant: the extending user is not recorded
UsuarioProrrogacao_Forget(d, usuario_id) ==
  IF d.prorrogacao.k = "null" THEN NULL ELSE KEEP

\* the user recorded with an extension (lines 331, 338)
UsuarioProrrogacao(d, usuario_id) ==
  IF d.prorrogacao.k = "undef" THEN KEEP
  ELSE IF d.prorrogacao.k = "null" THEN NULL
  ELSE usuario_id

\* `data`: the patch handed to prisma.andamento.update (KEEP = field absent)
DataAtualizar(d, usuario_id) ==
  [origem |-> IF d.origem.k = "unid" THEN d.origem.v ELSE KEEPSTR,
   destino |-> IF d.destino.k = "unid" THEN d.destino.v ELSE KEEPSTR,
   data_envio |-> IF d.data_envio.k = "undef" THEN KEEP
                  ELSE IF Truthy(d.data_envio) THEN NewDate(d.data_envio)
                  ELSE NULL,
   prazo |-> IF Truthy(d.prazo) THEN NewDate(d.prazo) ELSE KEEP,
   observacao |-> IF d.observacao.k = "undef" THEN KEEP
                  ELSE IF d.observacao.k = "null" THEN NULL
                  ELSE d.observacao.v,
   prorrogacao |-> IF d.prorrogacao.k = "undef" THEN KEEP
                   ELSE IF d.prorrogacao.k = "null" THEN NULL
                   ELSE NewDate(d.prorrogacao),
   usuario_prorrogacao_id |-> UsuarioProrrogacao(d, usuario_id),
   resposta |-> IF d.resposta.k = "undef" THEN KEEP
                ELSE IF d.resposta.k = "null" THEN NULL
                ELSE NewDate(d.resposta),
   status |-> StatusResposta(d, StatusProrrogacao(d))]

\* Prisma rejects an Invalid Date
DataInvalida(data) ==
  NaN \in {data.data_envio, data.prazo, data.prorrogacao, data.resposta}

Campo(novo, antigo) == IF novo = KEEP THEN antigo ELSE novo

\* prisma.andamento.update({ where: { id }, data })
AplicaData(a, data) ==
  [a EXCEPT
     !.origem = IF data.origem = KEEPSTR THEN @ ELSE data.origem,
     !.destino = IF data.destino = KEEPSTR THEN @ ELSE data.destino,
     !.data_envio = Campo(data.data_envio, @),
     !.prazo = Campo(data.prazo, @),
     !.observacao = Campo(data.observacao, @),
     !.prorrogacao = Campo(data.prorrogacao, @),
     !.usuario_prorrogacao_id = Campo(data.usuario_prorrogacao_id, @),
     !.resposta = Campo(data.resposta, @),
     !.status = IF data.status = KEEPSTR THEN @ ELSE data.status]

\* mutant: the response date of the process follows the latest andamento
ProcessoUpdateData_Sobrescreve(p, d, data, antigo) ==
  LET rf == p.resposta_final = NULL /\ Truthy(d.observacao)
  IN [p EXCEPT
        !.data_resposta_final = data.resposta,
        !.resposta_final = IF rf THEN d.observacao.v ELSE @,
        !.unidade_respondida_id = antigo.destino]

\* lines 394-406: backfill of the process when a resposta is set
ProcessoUpdateData(p, d, data, antigo) ==
  LET drf == p.data_resposta_final = NULL
      rf == p.resposta_final = NULL /\ Truthy(d.observacao)
  IN [p EXCEPT
        !.data_resposta_final = IF drf THEN data.resposta ELSE @,
        !.resposta_final = IF rf THEN d.observacao.v ELSE @,
        !.unidade_respondida_id = IF drf \/ rf THEN antigo.destino ELSE @]

AndamentoAtualizar(db, id, dto, usuario_id) ==
  IF BuscarPorId(db, id) # "ok" THEN Falha(db, BuscarPorId(db, id))
  ELSE
    LET d == Normaliza(dto)
        data == DataAtualizar(d, usuario_id)
        antigo == db.andamentos[id]
        isRespostaSet == d.resposta.k \notin {"undef", "null"}
        as == [db.andamentos EXCEPT ![id] = AplicaData(antigo, data)]
        pid == antigo.processo_id
        ps == IF isRespostaSet
              THEN [db.processos EXCEPT
                      ![pid] = ProcessoUpdateData(@, d, data, antigo)]
              ELSE db.processos
    IN IF DataInvalida(data) THEN Falha(db, "Internal")
       ELSE Res(Db(ps, as), "ok", 0)

----------------------------------------------------------------------------
(* AndamentosService.concluir, prorrogar, remover *)

\* mutant: concluir does not look at the stored status
AndamentoConcluir_SemVerificar(db, id, usuario_id, agora) ==
  IF BuscarPorId(db, id) # "ok" THEN Falha(db, BuscarPorId(db, id))
  ELSE AndamentoAtualizar(db, id,
         [EmptyDto EXCEPT !.resposta = Iso(agora),
                          !.status = [k |-> "enum", v |-> "CONCLUIDO"]],
         usuario_id)

AndamentoConcluir(db, id, usuario_id, agora) ==
  IF BuscarPorId(db, id) # "ok" THEN Falha(db, BuscarPorId(db, id))
  ELSE IF db.andamentos[id].status = "CONCLUIDO" THEN Falha(db, "BadRequest")
  ELSE AndamentoAtualizar(db, id,
         [EmptyDto EXCEPT !.resposta = Iso(agora),
                          !.status = [k |-> "enum", v |-> "CONCLUIDO"]],
         usuario_id)

\* mutant: a date equal to the current time is accepted
AndamentoProrrogar_Lt(db, id, novaDataLimite, usuario_id, agora) ==
  IF BuscarPorId(db, id) # "ok" THEN Falha(db, BuscarPorId(db, id))
  ELSE IF NewDate(novaDataLimite) # NaN /\ NewDate(novaDataLimite) < agora
       THEN Falha(db, "BadRequest")
  ELSE AndamentoAtualizar(db, id,
         [EmptyDto EXCEPT !.prorrogacao = novaDataLimite,
                          !.status = [k |-> "enum", v |-> "PRORROGADO"]],
         usuario_id)

AndamentoProrrogar(db, id, novaDataLimite, usuario_id, agora) ==
  IF BuscarPorId(db, id) # "ok" THEN Falha(db, BuscarPorId(db, id))
  ELSE IF NewDate(novaDataLimite) # NaN /\ NewDate(novaDataLimite) <= agora
       THEN Falha(db, "BadRequest")
  ELSE AndamentoAtualizar(db, id,
         [EmptyDto EXCEPT !.prorrogacao = novaDataLimite,
                          !.status = [k |-> "enum", v |-> "PRORROGADO"]],
         usuario_id)

AndamentoRemover(db, id, usuario_id) ==
  IF BuscarPorId(db, id) # "ok" THEN Falha(db, BuscarPorId(db, id))
  ELSE Res(Db(db.processos, [db.andamentos EXCEPT ![id].ativo = FALSE]), "ok", 0)

----------------------------------------------------------------------------
(* AndamentosService.lote *)

\* mutant: an id that is not a UUID is counted as processed
LoteUm_AceitaMalformado(db, operacao, id, novaDataLimite, usuario_id, agora) ==
  IF id = 0 THEN Res(db, "ok", 0)
  ELSE CASE operacao = "excluir" -> AndamentoRemover(db, id, usuario_id)
         [] operacao = "prorrogar" ->
              AndamentoProrrogar(db, id, novaDataLimite, usuario_id, agora)
         [] operacao = "concluir" -> AndamentoConcluir(db, id, usuario_id, agora)

\* one iteration of the for loop: what the switch does for one id
LoteUm(db, operacao, id, novaDataLimite, usuario_id, agora) ==
  IF id = 0 THEN Falha(db, "BadRequest")
  ELSE CASE operacao = "excluir" -> AndamentoRemover(db, id, usuario_id)
         [] operacao = "prorrogar" ->
              AndamentoProrrogar(db, id, novaDataLimite, usuario_id, agora)
         [] operacao = "concluir" -> AndamentoConcluir(db, id, usuario_id, agora)

\* the loop: db threaded through the ids, with the count and the errors
RECURSIVE LoteLoop(_, _, _, _, _, _, _)
LoteLoop(acc, operacao, ids, i, novaDataLimite, usuario_id, agora) ==
  IF i > Len(ids) THEN acc
  ELSE
    LET r == LoteUm(acc.db, operacao, ids[i], novaDataLimite, usuario_id, agora)
    IN LoteLoop(
         [db |-> r.db,
          processados |-> acc.processados + (IF r.out = "ok" THEN 1 ELSE 0),
          erros |-> IF r.out = "ok" THEN acc.erros ELSE Append(acc.erros, ids[i])],
         operacao, ids, i + 1, novaDataLimite, usuario_id, agora)

AndamentoLote(db, operacao, ids, novaDataLimite, usuario_id, agora) ==
  IF Len(ids) = 0 THEN [db |-> db, out |-> "BadRequest", processados |-> 0, erros |-> <<>>]
  ELSE IF operacao \notin {"excluir", "prorrogar", "concluir"}
       THEN [db |-> db, out |-> "BadRequest", processados |-> 0, erros |-> <<>>]
  ELSE IF operacao = "prorrogar" /\ ~Truthy(novaDataLimite)
       THEN [db |-> db, out |-> "BadRequest", processados |-> 0, erros |-> <<>>]
  ELSE
    LET r == LoteLoop([db |-> db, processados |-> 0, erros |-> <<>>],
                      operacao, ids, 1, novaDataLimite, usuario_id, agora)
    IN [db |-> r.db, out |-> "ok", processados |-> r.processados, erros |-> r.erros]

----------------------------------------------------------------------------
(* ProcessosService.criarRespostaFinal *)

AndamentosAtivos(db, pid) ==
  {i \in DOMAIN db.andamentos :
     db.andamentos[i].processo_id = pid /\ db.andamentos[i].ativo}

\* lines 775-783: prisma.andamento.findFirst for an equal conclusion
ConclusaoExistente(db, pid, dataResposta, resposta_final) ==
  {i \in AndamentosAtivos(db, pid) :
     /\ db.andamentos[i].status = "CONCLUIDO"
     /\ db.andamentos[i].observacao = resposta_final
     /\ db.andamentos[i].data_envio = dataResposta}

\* mutant: the two Date objects compared by reference, never equal
MesmaResposta_ByReference(p, dataResposta, resposta_final) ==
  /\ p.data_resposta_final # NULL
  /\ p.resposta_final = resposta_final
  /\ FALSE

\* lines 735-740: the process already carries this response
MesmaResposta(p, dataResposta, resposta_final) ==
  /\ p.data_resposta_final # NULL
  /\ p.resposta_final = resposta_final
  /\ p.data_resposta_final = dataResposta

\* the data of both processo.update calls (lines 793-797, 838-842)
ComResposta(p, dataResposta, resposta_final, unidadeRespondida) ==
  [p EXCEPT !.data_resposta_final = dataResposta,
            !.resposta_final = resposta_final,
            !.unidade_respondida_id = unidadeRespondida]

\* lines 847-857: the terminal andamento
AndamentoFinal(pid, unidadeRespondida, dataResposta, resposta_final, usuario_id) ==
  [processo_id |-> pid,
   origem |-> unidadeRespondida,
   destino |-> unidadeRespondida,
   data_envio |-> dataResposta,
   prazo |-> dataResposta,
   prorrogacao |-> NULL,
   resposta |-> NULL,
   status |-> "CONCLUIDO",
   observacao |-> resposta_final,
   usuario_id |-> usuario_id,
   usuario_prorrogacao_id |-> NULL,
   ativo |-> TRUE]

\* lines 834-861: processo.update inside $transaction([...]), then
\* andamento.create as a separate statement, which `falhaCreate` makes throw
GravaRespostaFinal(db, pid, dataResposta, resposta_final, usuario_id, falhaCreate) ==
  LET unidadeRespondida == db.processos[pid].origem
      ps == [db.processos EXCEPT
               ![pid] = ComResposta(@, dataResposta, resposta_final, unidadeRespondida)]
      novo == AndamentoFinal(pid, unidadeRespondida, dataResposta, resposta_final,
                             usuario_id)
  IN IF falhaCreate THEN Falha(Db(ps, db.andamentos), "Internal")
     ELSE Res(Db(ps, Append(db.andamentos, novo)), "ok", 1)

\* mutant: an inactive process is answered like an active one
ValidaRespostaFinal_Inativo(db, pid, dataResposta, agora) ==
  IF pid \notin DOMAIN db.processos THEN "NotFound"
  ELSE IF AndamentosAtivos(db, pid) = {} THEN "BadRequest"
  ELSE IF dataResposta > FimDoDia(agora) THEN "BadRequest"
  ELSE "ok"

\* lines 686-728: the checks that precede every write
ValidaRespostaFinal(db, pid, dataResposta, agora) ==
  IF pid \notin DOMAIN db.processos THEN "NotFound"
  ELSE IF ~db.processos[pid].ativo THEN "BadRequest"
  ELSE IF AndamentosAtivos(db, pid) = {} THEN "BadRequest"
  ELSE IF dataResposta > FimDoDia(agora) THEN "BadRequest"
  ELSE "ok"

\* dto = [processo_id, data_resposta_final, resposta_final, unidade_respondida_id]
CriarRespostaFinal(db, dto, usuario_id, agora, falhaCreate) ==
  LET pid == dto.processo_id
      dataResposta == NewDate(dto.data_resposta_final)
      resposta_final == dto.resposta_final
      valida == ValidaRespostaFinal(db, pid, dataResposta, agora)
  IN
  IF valida # "ok" THEN Falha(db, valida)
  ELSE
    LET p == db.processos[pid]
        unidadeRespondida == p.origem
    IN
    IF MesmaResposta(p, dataResposta, resposta_final) THEN Res(db, "ok", 0)
    ELSE IF ConclusaoExistente(db, pid, dataResposta, resposta_final) # {}
    THEN
      IF p.data_resposta_final = NULL \/ p.resposta_final = NULL
      THEN Res(Db([db.processos EXCEPT
                     ![pid] = ComResposta(@, dataResposta, resposta_final,
                                          unidadeRespondida)],
                  db.andamentos), "ok", 0)
      ELSE Res(db, "ok", 0)
    ELSE GravaRespostaFinal(db, pid, dataResposta, resposta_final, usuario_id,
                            falhaCreate)

----------------------------------------------------------------------------
(* ProcessosService: the requester and the read operations *)

\* the row of `usuarios` found for usuario_id; NoUsuario when usuario_id is
\* undefined or no row is found
Requerentes == [permissao : Permissoes, unidade_id : UnidadeIds]

NoUsuario == [permissao |-> "none", unidade_id |-> "none"]

\* mutant: only the role USR is restricted to its unit
FiltroUnidade_SoUSR(p, u) ==
  (u # NoUsuario /\ u.permissao = "USR") => p.unidade_id = u.unidade_id

\* the unit filter of the where clause: everyone but DEV and ADM sees only
\* the processes of their own unit
FiltroUnidade(p, u) ==
  (u # NoUsuario /\ u.permissao \notin {"DEV", "ADM"})
    => p.unidade_id = u.unidade_id

\* mutant: the original prazo counts even when an extension exists
VenceHoje_PrazoOriginal(a, agora) ==
  /\ a.ativo
  /\ a.status = "EM_ANDAMENTO"
  /\ \/ (/\ a.prazo # NULL
          /\ a.prazo >= InicioDoDia(agora) /\ a.prazo <= FimDoDia(agora))
     \/ (/\ a.prorrogacao # NULL
          /\ a.prorrogacao >= InicioDoDia(agora)
          /\ a.prorrogacao <= FimDoDia(agora))

\* mutant: the status of the andamento is not looked at
VenceHoje_SemStatus(a, agora) ==
  /\ a.ativo
  /\ \/ (/\ a.prazo # NULL
          /\ a.prazo >= InicioDoDia(agora) /\ a.prazo <= FimDoDia(agora)
          /\ a.prorrogacao = NULL)
     \/ (/\ a.prorrogacao # NULL
          /\ a.prorrogacao >= InicioDoDia(agora)
          /\ a.prorrogacao <= FimDoDia(agora))

\* andamentos: { some: ... } of the due-today filter (a comparison with a
\* NULL column is never true)
VenceHoje(a, agora) ==
  /\ a.ativo
  /\ a.status = "EM_ANDAMENTO"
  /\ \/ (/\ a.prazo # NULL
          /\ a.prazo >= InicioDoDia(agora) /\ a.prazo <= FimDoDia(agora)
          /\ a.prorrogacao = NULL)
     \/ (/\ a.prorrogacao # NULL
          /\ a.prorrogacao >= InicioDoDia(agora)
          /\ a.prorrogacao <= FimDoDia(agora))

\* mutant: `lte` instead of `lt`, the first instant of today is overdue
Atrasado_Lte(a, agora) ==
  /\ a.ativo
  /\ a.status = "EM_ANDAMENTO"
  /\ \/ (a.prazo # NULL /\ a.prazo <= InicioDoDia(agora) /\ a.prorrogacao = NULL)
     \/ (a.prorrogacao # NULL /\ a.prorrogacao <= InicioDoDia(agora))

\* andamentos: { some: ... } of the overdue filter
Atrasado(a, agora) ==
  /\ a.ativo
  /\ a.status = "EM_ANDAMENTO"
  /\ \/ (a.prazo # NULL /\ a.prazo < InicioDoDia(agora) /\ a.prorrogacao = NULL)
     \/ (a.prorrogacao # NULL /\ a.prorrogacao < InicioDoDia(agora))

AndamentosDe(db, pid) ==
  {i \in DOMAIN db.andamentos : db.andamentos[i].processo_id = pid}

\* the ids selected by the where clause of buscarTudo (all pages together)
BuscarTudo(db, vencendoHoje, atrasados, u, agora) ==
  {pid \in DOMAIN db.processos :
     /\ db.processos[pid].ativo
     /\ FiltroUnidade(db.processos[pid], u)
     /\ (vencendoHoje \/ atrasados)
          => \/ (/\ vencendoHoje
                 /\ \E i \in AndamentosDe(db, pid) :
                      VenceHoje(db.andamentos[i], agora))
             \/ (/\ atrasados
                 /\ \E i \in AndamentosDe(db, pid) :
                      Atrasado(db.andamentos[i], agora))}

\* the rows counted by contarVencendoHoje
VencendoHoje(db, u, agora) ==
  {pid \in DOMAIN db.processos :
     /\ FiltroUnidade(db.processos[pid], u)
     /\ db.processos[pid].ativo
     /\ \E i \in AndamentosDe(db, pid) : VenceHoje(db.andamentos[i], agora)}

\* the rows counted by contarAtrasados
Atrasados(db, u, agora) ==
  {pid \in DOMAIN db.processos :
     /\ FiltroUnidade(db.processos[pid], u)
     /\ db.processos[pid].ativo
     /\ \E i \in AndamentosDe(db, pid) : Atrasado(db.andamentos[i], agora)}

\* what buscarPorId and buscarPorNumeroSei do with the row they found (the
\* empty set when findUnique returned null)
AcessoAoProcesso(achados, db, u) ==
  IF achados = {} THEN "NotFound"
  ELSE LET p == db.processos[CHOOSE pid \in achados : TRUE]
       IN IF ~p.ativo THEN "NotFound"
          ELSE IF u # NoUsuario /\ u.permissao \notin {"DEV", "ADM"}
                  /\ p.unidade_id # u.unidade_id
               THEN "Forbidden"
          ELSE "ok"

\* IdVazio is the empty id; NoProc is an id that no row carries
ProcessoBuscarPorId(db, pid, u) ==
  IF pid = IdVazio THEN "BadRequest"
  ELSE AcessoAoProcesso({pid} \cap DOMAIN db.processos, db, u)

\* numero_sei is unique: at most one row is found; 0 is the empty string
ProcessoBuscarPorNumeroSei(db, numero_sei, u) ==
  IF numero_sei = 0 THEN "BadRequest"
  ELSE AcessoAoProcesso(
         {pid \in DOMAIN db.processos : db.processos[pid].numero_sei = numero_sei},
         db, u)

----------------------------------------------------------------------------
(* ProcessosService.criar, atualizar *)

\* mutant: the unique index does not cover the empty string
NumeroSeiLivre_SemVazio(ps, numero_sei, pid) ==
  numero_sei = 0
    \/ \A q \in DOMAIN ps \ {pid} : ps[q].numero_sei # numero_sei

\* the unique index processos_numero_sei_key: no row other than `pid` holds
\* the number (rows are never deleted, so soft-deleted rows count)
NumeroSeiLivre(ps, numero_sei, pid) ==
  \A q \in DOMAIN ps \ {pid} : ps[q].numero_sei # numero_sei

\* findUnique({where: {numero_sei}})
ProcessoComNumeroSei(ps, numero_sei) ==
  {q \in DOMAIN ps : ps[q].numero_sei = numero_sei}

\* `DRAFT-${Date.now()}-${Math.random()...}`: a number that only the
\* generator produces, different at every call
PrimeiroRascunho == 100
Rascunhos == {n \in Int : n > PrimeiroRascunho}
NumeroGerado(ps) == PrimeiroRascunho + Len(ps) + 1

ProcessoDto(numero_sei, origem) == [numero_sei |-> numero_sei, origem |-> origem]

\* `u` is the row of usuario_id (NoUsuario when there is none); the payloads
\* carry neither interessado_id nor unidade_remetente_id
ProcessoCriar(db, dto, u) ==
  IF u = NoUsuario THEN Falha(db, "BadRequest")
  ELSE
    LET numeroSei == IF Truthy(dto.numero_sei) THEN dto.numero_sei.v
                     ELSE NumeroGerado(db.processos)
        novo == [origem |-> IF Truthy(dto.origem) THEN dto.origem.v ELSE "EXPEDIENTE",
                 ativo |-> TRUE, data_resposta_final |-> NULL,
                 resposta_final |-> NULL, unidade_respondida_id |-> NULLSTR,
                 unidade_id |-> u.unidade_id, numero_sei |-> numeroSei]
    IN IF ProcessoComNumeroSei(db.processos, numeroSei) # {}
       THEN Falha(db, "BadRequest")
       ELSE IF ~NumeroSeiLivre(db.processos, numeroSei, NoProc)
       THEN Falha(db, "Internal")
       ELSE Res(Db(Append(db.processos, novo), db.andamentos), "ok", 0)

ProcessoAtualizar(db, pid, dto, u) ==
  IF ProcessoBuscarPorId(db, pid, u) # "ok"
  THEN Falha(db, ProcessoBuscarPorId(db, pid, u))
  ELSE
    LET processoExistente == db.processos[pid]
        atualizado ==
          [processoExistente EXCEPT
             !.numero_sei = IF dto.numero_sei.k = "txt" THEN dto.numero_sei.v ELSE @,
             !.origem = IF dto.origem.k = "unid" THEN dto.origem.v ELSE @]
    IN IF /\ Truthy(dto.numero_sei)
          /\ dto.numero_sei.v # processoExistente.numero_sei
          /\ ProcessoComNumeroSei(db.processos, dto.numero_sei.v) # {}
       THEN Falha(db, "BadRequest")
       ELSE IF ~NumeroSeiLivre(db.processos, atualizado.numero_sei, pid)
       THEN Falha(db, "Internal")
       ELSE Res(Db([db.processos EXCEPT ![pid] = atualizado], db.andamentos),
                "ok", 0)

----------------------------------------------------------------------------
(* ProcessosService.remover (soft delete) *)

\* mutant: the active andamentos are not looked at
ProcessoRemover_SemVerificar(db, pid, u) ==
  IF ProcessoBuscarPorId(db, pid, u) # "ok"
  THEN Falha(db, ProcessoBuscarPorId(db, pid, u))
  ELSE Res(Db([db.processos EXCEPT ![pid].ativo = FALSE], db.andamentos), "ok", 0)

ProcessoRemover(db, pid, u) ==
  IF ProcessoBuscarPorId(db, pid, u) # "ok"
  THEN Falha(db, ProcessoBuscarPorId(db, pid, u))
  ELSE IF AndamentosAtivos(db, pid) # {} THEN Falha(db, "BadRequest")
  ELSE Res(Db([db.processos EXCEPT ![pid].ativo = FALSE], db.andamentos), "ok", 0)

----------------------------------------------------------------------------
(* UnidadesService.buscarPorId, remover; UsuariosService.excluir,
   autorizaUsuario, atualizar *)

\* a unit id that no row carries
NoUnidade == "U0"

UnidadeBuscarPorId(un, id) ==
  IF id = "" THEN "BadRequest"
  ELSE IF id \notin DOMAIN un \/ ~un[id].ativo THEN "NotFound"
  ELSE "ok"

\* findMany({unidade_id: id, status: true}) and
\* findMany({unidade_id: id, ativo: true})
UsuariosAtivosDa(us, id) ==
  {i \in DOMAIN us : us[i].unidade_id = id /\ us[i].status}
ProcessosAtivosDa(ps, id) ==
  {pid \in DOMAIN ps : ps[pid].unidade_id = id /\ ps[pid].ativo}

\* mutant: the processes of the unit are not looked at
UnidadeRemover_SemProcessos(un, us, ps, id) ==
  IF UnidadeBuscarPorId(un, id) # "ok"
  THEN [unidades |-> un, out |-> UnidadeBuscarPorId(un, id)]
  ELSE IF UsuariosAtivosDa(us, id) # {}
       THEN [unidades |-> un, out |-> "BadRequest"]
  ELSE [unidades |-> [un EXCEPT ![id].ativo = FALSE], out |-> "ok"]

UnidadeRemover(un, us, ps, id) ==
  IF UnidadeBuscarPorId(un, id) # "ok"
  THEN [unidades |-> un, out |-> UnidadeBuscarPorId(un, id)]
  ELSE IF UsuariosAtivosDa(us, id) # {}
       THEN [unidades |-> un, out |-> "BadRequest"]
  ELSE IF ProcessosAtivosDa(ps, id) # {}
       THEN [unidades |-> un, out |-> "BadRequest"]
  ELSE [unidades |-> [un EXCEPT ![id].ativo = FALSE], out |-> "ok"]

UsuarioExcluir(us, id) == [us EXCEPT ![id].status = FALSE]

UsuarioAutoriza(us, id) == [us EXCEPT ![id].status = TRUE]

\* the new unit has to exist; it need not be active
UsuarioAtualizar(us, un, id, unidade_id) ==
  IF unidade_id \notin DOMAIN un THEN [usuarios |-> us, out |-> "BadRequest"]
  ELSE [usuarios |-> [us EXCEPT ![id].unidade_id = unidade_id], out |-> "ok"]

----------------------------------------------------------------------------
(* State machine: one action per request *)

NoAndamento ==
  [processo_id |-> NoProc, origem |-> NULLSTR, destino |-> NULLSTR,
   data_envio |-> NULL, prazo |-> NULL, prorrogacao |-> NULL, resposta |-> NULL,
   status |-> "EM_ANDAMENTO", observacao |-> NULL, usuario_id |-> NULL,
   usuario_prorrogacao_id |-> NULL, ativo |-> FALSE]

NoRF ==
  [processo_id |-> NoProc, data_resposta_final |-> Undef, resposta_final |-> NULL,
   unidade_respondida_id |-> NULLSTR]

\* `last`: the latest request and its response (none after a clock step, so
\* that `now` is the time of the request `last` describes)
\*   pr, rc    how an atualizar payload carried prorrogacao and resposta
\*             (`conclusao` when given, else `resposta`): "undef", "null",
\*             "iso" or "txt"
\*   rf        the payload of criarRespostaFinal
\*   escreveu  the request changed the database
\*   rep       the request repeats the one before it (same operation, same input)
\*   criadosAntes, outAntes  andamentos created by, and outcome of, the
\*             request that a repeated request repeats
\*   operacao, ids, processados, erros  the input and the summary of a lote
\*   data      the prorrogacao date the request carries
\*   antes     the status the target andamento had when the request arrived
\*   unidade   the unit a request on `unidades` names
\*   quem      the row of the requester of a request on a process
\*   sei       the numero_sei the request carries (0 the empty string, NULL
\*             when it carries none)
NoLast ==
  [op |-> "init", id |-> 0, pr |-> "undef", rc |-> "undef", rf |-> NoRF,
   out |-> "ok", criados |-> 0, escreveu |-> FALSE, rep |-> FALSE,
   criadosAntes |-> 0, outAntes |-> "ok",
   operacao |-> "", ids |-> <<>>, processados |-> 0, erros |-> <<>>,
   data |-> NULL, antes |-> "", unidade |-> NULLSTR,
   quem |-> NoUsuario, sei |-> NULL]

DbAtual == Db(processos, andamentos)

\* the resposta a payload carries: `conclusao` when it is given, else `resposta`
RespostaCarregada(dto) ==
  IF dto.conclusao.k \in {"undef", "null"} THEN dto.resposta ELSE dto.conclusao

Responde(op, id, dto, rf, r) ==
  /\ processos' = r.db.processos
  /\ andamentos' = r.db.andamentos
  /\ now' = now
  /\ consulta' = consulta
  /\ UNCHANGED <<unidades, usuarios, pedidos>>
  /\ last' = [op |-> op, id |-> id, pr |-> dto.prorrogacao.k,
              rc |-> RespostaCarregada(dto).k, rf |-> rf,
              out |-> r.out, criados |-> r.criados,
              escreveu |-> (r.db # DbAtual),
              rep |-> (last.op = op /\ last.id = id /\ last.rf = rf
                       /\ op = "criarRespostaFinal"),
              criadosAntes |-> IF op = "criarRespostaFinal" THEN last.criados ELSE 0,
              outAntes |-> IF op = "criarRespostaFinal" THEN last.out ELSE "ok",
              operacao |-> "", ids |-> <<>>, processados |-> 0, erros |-> <<>>,
              data |-> IF dto.prorrogacao.k = "iso" THEN dto.prorrogacao.v ELSE NULL,
              antes |-> IF id \in DOMAIN andamentos THEN andamentos[id].status
                        ELSE "",
              unidade |-> NULLSTR, quem |-> NoUsuario, sei |-> NULL]

Enum(x) == [k |-> "enum", v |-> x]
Unid(x) == [k |-> "unid", v |-> x]

\* request payloads
IdsAndamento == 0 .. MaxAndamentos
IdsProcesso == ProcIds \cup {NoProc}
Criador == 1
Editor == 2

CriarDto(pid, de, ob, st) ==
  [processo_id |-> pid, origem |-> "A", destino |-> "B", data_envio |-> de,
   prazo |-> Undef, observacao |-> ob, status |-> st]

\* andamento criar: every status a client may send
CriarDtos ==
  {CriarDto(pid, Undef, Undef, st) :
     pid \in IdsProcesso, st \in {Undef} \cup {Enum(x) : x \in Status}}

\* andamento atualizar: prorrogacao, resposta, conclusao and observacao, each
\* omitted, null, a date or a text; and payloads that carry only a status
DatasOuTexto == {Undef, Null, Iso(1), Txt(1)}
AtualizarDtos ==
  {[EmptyDto EXCEPT !.prorrogacao = pr, !.resposta = re, !.conclusao = co,
                    !.observacao = ob] :
     pr \in DatasOuTexto, re \in DatasOuTexto, co \in {Undef, Iso(1)},
     ob \in {Undef, Txt(1)}}
    \cup {[EmptyDto EXCEPT !.resposta = re, !.conclusao = co] :
            re \in DatasOuTexto, co \in {Null, Txt(1)}}
    \cup {[EmptyDto EXCEPT !.status = Enum(x)] : x \in Status}

\* andamento criar as the final-response flow sees it: a conclusion that
\* already carries the note and send date, or a plain andamento
CriarDtosRF ==
  {CriarDto(pid, Undef, Undef, Undef) : pid \in ProcIds}
    \cup {CriarDto(pid, Iso(1), Txt(1), Enum("CONCLUIDO")) : pid \in ProcIds}

\* the response dates: the last instant of the first day and the first
\* instant of the second day
RespostaFinalDtos ==
  {[processo_id |-> pid, data_resposta_final |-> Iso(t), resposta_final |-> tx,
    unidade_respondida_id |-> un] :
     pid \in ProcIds, t \in {DayLen - 1, DayLen}, tx \in Textos,
     un \in Unidades}
    \cup {[processo_id |-> NoProc, data_resposta_final |-> Iso(DayLen - 1),
            resposta_final |-> 1, unidade_respondida_id |-> "A"]}

\* andamento atualizar as the final-response flow sees it: a unit answers
\* with a date and, or not, a note
ResponderDtos ==
  {[EmptyDto EXCEPT !.resposta = Iso(t), !.observacao = ob] :
     t \in {0, 1}, ob \in {Undef, Txt(1)}}

LoteIds ==
  {<<i>> : i \in IdsAndamento} \cup {<<i, j>> : i, j \in IdsAndamento}

Criar(dto, usuario_id) ==
  /\ Len(andamentos) < MaxAndamentos
  /\ Responde("criar", 0, EmptyDto, NoRF, AndamentoCriar(DbAtual, dto, usuario_id))

Atualizar(id, dto, usuario_id) ==
  Responde("atualizar", id, dto, NoRF,
           AndamentoAtualizar(DbAtual, id, dto, usuario_id))

Concluir(id, usuario_id) ==
  Responde("concluir", id, EmptyDto, NoRF,
           AndamentoConcluir(DbAtual, id, usuario_id, now))

Prorrogar(id, novaDataLimite, usuario_id) ==
  Responde("prorrogar", id, [EmptyDto EXCEPT !.prorrogacao = novaDataLimite], NoRF,
           AndamentoProrrogar(DbAtual, id, novaDataLimite, usuario_id, now))

Remover(id, usuario_id) ==
  Responde("remover", id, EmptyDto, NoRF,
           AndamentoRemover(DbAtual, id, usuario_id))

Lote(operacao, ids, novaDataLimite, usuario_id) ==
  LET r == AndamentoLote(DbAtual, operacao, ids, novaDataLimite, usuario_id, now)
  IN /\ processos' = r.db.processos
     /\ andamentos' = r.db.andamentos
     /\ now' = now
     /\ consulta' = consulta
     /\ UNCHANGED <<unidades, usuarios, pedidos>>
     /\ last' = [NoLast EXCEPT !.op = "lote", !.pr = novaDataLimite.k,
                                !.out = r.out, !.escreveu = (r.db # DbAtual),
                                !.operacao = operacao, !.ids = ids,
                                !.processados = r.processados, !.erros = r.erros]

RespostaFinal(dto, usuario_id, falhaCreate) ==
  LET r == CriarRespostaFinal(DbAtual, dto, usuario_id, now, falhaCreate)
  IN /\ Len(r.db.andamentos) <= MaxAndamentos + 1
     /\ Responde("criarRespostaFinal", dto.processo_id, EmptyDto,
                 [dto EXCEPT !.unidade_respondida_id = NULLSTR], r)

\* DELETE /processos/:id is open to ADM (and to DEV, whom the guard always
\* lets through)
Administradores == {u \in Requerentes : u.permissao \in {"ADM", "DEV"}}

\* a request on a process, by the user whose row is `u`
RespondeProcesso(op, pid, numero_sei, rf, u, r) ==
  /\ processos' = r.db.processos
  /\ andamentos' = r.db.andamentos
  /\ UNCHANGED <<now, consulta, unidades, usuarios, pedidos>>
  /\ last' = [NoLast EXCEPT !.op = op, !.id = pid, !.rf = rf, !.out = r.out,
                             !.criados = r.criados,
                             !.escreveu = (r.db # DbAtual),
                             !.quem = u,
                             !.sei = IF numero_sei.k = "txt" THEN numero_sei.v
                                     ELSE NULL]

RemoverProcesso(pid, u) ==
  RespondeProcesso("removerProcesso", pid, Undef, NoRF, u,
                   ProcessoRemover(DbAtual, pid, u))

NumerosSei == {Undef, Txt(0), Txt(1), Txt(2)}

CriarProcesso(dto, u) ==
  /\ Len(processos) < MaxProcessos
  /\ RespondeProcesso("criarProcesso", NoProc, dto.numero_sei, NoRF, u,
                      ProcessoCriar(DbAtual, dto, u))

AtualizarProcesso(pid, dto, u) ==
  RespondeProcesso("atualizarProcesso", pid, dto.numero_sei, NoRF, u,
                   ProcessoAtualizar(DbAtual, pid, dto, u))

\* POST /processos/resposta-final carries no @Permissoes: every authenticated
\* user reaches the service
RespostaFinalDe(dto, u) ==
  LET r == CriarRespostaFinal(DbAtual, dto, Editor, now, FALSE)
  IN /\ Len(r.db.andamentos) <= MaxAndamentos + 1
     /\ RespondeProcesso("criarRespostaFinal", dto.processo_id, Undef,
                         [dto EXCEPT !.unidade_respondida_id = NULLSTR], u, r)

\* criarRespostaFinal statement by statement: two requests with the same
\* (process id, date, text), each suspended at every await
PedidoRF ==
  [processo_id |-> 1, data_resposta_final |-> Iso(1), resposta_final |-> 1,
   unidade_respondida_id |-> "A"]

Passo(r, pc, lido, ps, as) ==
  /\ pedidos' = [pedidos EXCEPT ![r] = [pc |-> pc, lido |-> lido]]
  /\ processos' = ps
  /\ andamentos' = as
  /\ last' = [NoLast EXCEPT !.op = "passo"]
  /\ UNCHANGED <<now, consulta, unidades, usuarios>>

\* lines 687-772: findUnique, the checks and the first idempotency test
PedidoLer(r) ==
  /\ pedidos[r].pc = "ler"
  /\ LET pid == PedidoRF.processo_id
         dataResposta == NewDate(PedidoRF.data_resposta_final)
         valida == ValidaRespostaFinal(DbAtual, pid, dataResposta, now)
     IN Passo(r,
              IF valida # "ok" THEN "fim"
              ELSE IF MesmaResposta(processos[pid], dataResposta,
                                    PedidoRF.resposta_final)
                   THEN "fim"
              ELSE "buscar",
              processos[pid], processos, andamentos)

\* lines 775-786: findFirst for an equal conclusion
PedidoBuscar(r) ==
  /\ pedidos[r].pc = "buscar"
  /\ LET lido == pedidos[r].lido
         achou == ConclusaoExistente(DbAtual, PedidoRF.processo_id,
                                     NewDate(PedidoRF.data_resposta_final),
                                     PedidoRF.resposta_final) # {}
     IN Passo(r,
              IF ~achou THEN "update"
              ELSE IF lido.data_resposta_final = NULL \/ lido.resposta_final = NULL
                   THEN "backfill"
              ELSE "fim",
              lido, processos, andamentos)

\* lines 787-798: the process is given the response of the conclusion found
PedidoBackfill(r) ==
  /\ pedidos[r].pc = "backfill"
  /\ Passo(r, "fim", pedidos[r].lido,
           [processos EXCEPT
              ![PedidoRF.processo_id] =
                 ComResposta(@, NewDate(PedidoRF.data_resposta_final),
                             PedidoRF.resposta_final, pedidos[r].lido.origem)],
           andamentos)

\* lines 835-844: $transaction([processo.update])
PedidoUpdate(r) ==
  /\ pedidos[r].pc = "update"
  /\ Passo(r, "create", pedidos[r].lido,
           [processos EXCEPT
              ![PedidoRF.processo_id] =
                 ComResposta(@, NewDate(PedidoRF.data_resposta_final),
                             PedidoRF.resposta_final, pedidos[r].lido.origem)],
           andamentos)

\* lines 847-861: andamento.create
PedidoCreate(r) ==
  /\ pedidos[r].pc = "create"
  /\ Passo(r, "fim", pedidos[r].lido, processos,
           Append(andamentos,
                  AndamentoFinal(PedidoRF.processo_id, pedidos[r].lido.origem,
                                 NewDate(PedidoRF.data_resposta_final),
                                 PedidoRF.resposta_final, Editor)))

\* requests on units and users
RespondeCadastro(op, unidade, un, us, out) ==
  /\ unidades' = un
  /\ usuarios' = us
  /\ last' = [NoLast EXCEPT !.op = op, !.unidade = unidade, !.out = out,
                             !.escreveu = (un # unidades \/ us # usuarios)]
  /\ UNCHANGED <<processos, andamentos, now, consulta, pedidos>>

RemoverUnidade(id) ==
  LET r == UnidadeRemover(unidades, usuarios, processos, id)
  IN RespondeCadastro("removerUnidade", id, r.unidades, usuarios, r.out)

ExcluirUsuario(id) ==
  RespondeCadastro("excluirUsuario", NULLSTR, unidades,
                   UsuarioExcluir(usuarios, id), "ok")

AutorizarUsuario(id) ==
  RespondeCadastro("autorizarUsuario", NULLSTR, unidades,
                   UsuarioAutoriza(usuarios, id), "ok")

AtualizarUsuario(id, unidade_id) ==
  LET r == UsuarioAtualizar(usuarios, unidades, id, unidade_id)
  IN RespondeCadastro("atualizarUsuario", unidade_id, unidades, r.usuarios, r.out)

\* the clock
Tick ==
  /\ now < MaxTime
  /\ now' = now + 1
  /\ last' = [NoLast EXCEPT !.op = "tick"]
  /\ UNCHANGED <<processos, andamentos, consulta, unidades, usuarios, pedidos>>

ProcessoInicial(o) ==
  [origem |-> o, ativo |-> TRUE, data_resposta_final |-> NULL,
   resposta_final |-> NULL, unidade_respondida_id |-> NULLSTR,
   unidade_id |-> "U1", numero_sei |-> 1]

\* `consulta`: the read request that was answered, and its answer
NoConsulta ==
  [op |-> "none", u |-> NoUsuario, vencendoHoje |-> FALSE, atrasados |-> FALSE,
   id |-> 0, out |-> "ok", ids |-> {}, total |-> 0]

\* `pedidos`: the criarRespostaFinal requests in flight: the statement each is
\* about to execute and the process row it has read (processoExistente)
Pedidos == {1, 2}
PedidosIniciais == [r \in Pedidos |-> [pc |-> "ler", lido |-> ProcessoInicial("A")]]

\* the units, all active, and one active user in each
UnidadesIniciais == [id \in UnidadeIds |-> [ativo |-> TRUE]]
UsuariosIniciais ==
  [i \in Usuarios |-> [unidade_id |-> IF i = 1 THEN "U1" ELSE "U2",
                       status |-> TRUE]]

Init ==
  /\ processos = [p \in ProcIds |-> ProcessoInicial("A")]
  /\ andamentos = <<>>
  /\ now = 0
  /\ last = NoLast
  /\ consulta = NoConsulta
  /\ unidades = UnidadesIniciais
  /\ usuarios = UsuariosIniciais
  /\ pedidos = PedidosIniciais

\* the andamento update machine
Next ==
  \/ \E dto \in CriarDtos : Criar(dto, Criador)
  \/ \E id \in 1 .. MaxAndamentos, dto \in AtualizarDtos : Atualizar(id, dto, Editor)

Spec == Init /\ [][Next]_vars

\* the final-response flow
NextRF ==
  \/ \E dto \in CriarDtosRF : Criar(dto, Criador)
  \/ \E dto \in RespostaFinalDtos, f \in BOOLEAN : RespostaFinal(dto, Editor, f)
  \/ \E id \in IdsAndamento : Remover(id, Editor)
  \/ \E pid \in IdsProcesso, u \in Administradores : RemoverProcesso(pid, u)
  \/ Tick

SpecRF == Init /\ [][NextRF]_vars

\* a unit's answer (atualizar with a resposta) followed by the final response
NextRU ==
  \/ \E dto \in CriarDtosRF : Criar(dto, Criador)
  \/ \E id \in 1 .. MaxAndamentos, dto \in ResponderDtos : Atualizar(id, dto, Editor)
  \/ \E dto \in RespostaFinalDtos : RespostaFinal(dto, Editor, FALSE)

SpecRU == Init /\ [][NextRU]_vars

\* the processes and their numero_sei: creation, update and removal by an
\* administrator, creation by a user that has no row
Administrador == [permissao |-> "ADM", unidade_id |-> "U1"]

NextProc ==
  \/ \E n \in NumerosSei, u \in {Administrador, NoUsuario} :
        CriarProcesso(ProcessoDto(n, Undef), u)
  \/ \E pid \in 1 .. MaxProcessos, n \in NumerosSei, o \in {Undef, Unid("B")} :
        AtualizarProcesso(pid, ProcessoDto(n, o), Administrador)
  \/ \E pid \in 1 .. MaxProcessos : RemoverProcesso(pid, Administrador)

SpecProc == Init /\ [][NextProc]_vars

\* the writes on one process by users of every role and unit
RespostaFinalDtosP ==
  {[processo_id |-> 1, data_resposta_final |-> Iso(0), resposta_final |-> tx,
    unidade_respondida_id |-> "A"] : tx \in Textos}

NextAcesso ==
  \/ \E dto \in CriarDtosRF : Criar(dto, Criador)
  \/ \E n \in {Undef, Txt(2)}, o \in {Undef, Unid("B")}, u \in Requerentes :
        AtualizarProcesso(1, ProcessoDto(n, o), u)
  \/ \E u \in Requerentes : RemoverProcesso(1, u)
  \/ \E dto \in RespostaFinalDtosP, u \in Requerentes : RespostaFinalDe(dto, u)

SpecAcesso == Init /\ [][NextAcesso]_vars

\* two concurrent criarRespostaFinal requests, and the creation and removal
\* of andamentos by other clients
NextConc ==
  \/ \E dto \in CriarDtosRF : Criar(dto, Criador)
  \/ \E r \in Pedidos : PedidoLer(r)
  \/ \E r \in Pedidos : PedidoBuscar(r)
  \/ \E r \in Pedidos : PedidoBackfill(r)
  \/ \E r \in Pedidos : PedidoUpdate(r)
  \/ \E r \in Pedidos : PedidoCreate(r)
  \/ \E id \in IdsAndamento : Remover(id, Editor)

SpecConc == Init /\ [][NextConc]_vars

\* units, their users and their processes
NextUn ==
  \/ \E id \in UnidadeIds \cup {NoUnidade} : RemoverUnidade(id)
  \/ \E i \in Usuarios : ExcluirUsuario(i)
  \/ \E i \in Usuarios : AutorizarUsuario(i)
  \/ \E i \in Usuarios, id \in UnidadeIds \cup {NoUnidade} : AtualizarUsuario(i, id)
  \/ \E dto \in CriarDtosRF : Criar(dto, Criador)
  \/ \E id \in IdsAndamento : Remover(id, Editor)
  \/ \E pid \in IdsProcesso, u \in Administradores : RemoverProcesso(pid, u)

SpecUn == Init /\ [][NextUn]_vars

\* the dedicated operations, and an update whose prorrogacao is not in the
\* future
NextOps ==
  \/ \E dto \in CriarDtosRF : Criar(dto, Criador)
  \/ \E id \in IdsAndamento : Concluir(id, Editor)
  \/ \E id \in IdsAndamento, t \in 0 .. MaxTime + 1 : Prorrogar(id, Iso(t), Editor)
  \/ \E id \in IdsAndamento :
       Atualizar(id, [EmptyDto EXCEPT !.prorrogacao = Iso(0)], Editor)
  \/ Tick

SpecOps == Init /\ [][NextOps]_vars

\* the batch operation over the andamentos created so far
NextLote ==
  \/ \E dto \in CriarDtosRF : Criar(dto, Criador)
  \/ \E op \in {"excluir", "prorrogar", "concluir"}, ids \in LoteIds,
        d \in {Undef, Iso(MaxTime + 1)} : Lote(op, ids, d, Editor)

SpecLote == Init /\ [][NextLote]_vars

----------------------------------------------------------------------------
(* The read operations: one query against one database *)

ProcIdsQ == {1, 2}

ProcessoQ(pid, un, at) ==
  [ProcessoInicial("A") EXCEPT !.unidade_id = un, !.ativo = at,
                               !.numero_sei = pid]

AndamentoQ(pid, st, pz, pg, at) ==
  [NoAndamento EXCEPT !.processo_id = pid, !.origem = "A", !.destino = "B",
                      !.status = st, !.prazo = pz, !.prorrogacao = pg,
                      !.ativo = at, !.usuario_id = Criador]

\* deadlines around the second day: the last instant of the first day, the
\* first and the last instant of the second, the first instant of the third
Prazos == {DayLen - 1, DayLen, 2 * DayLen - 1, 2 * DayLen}

\* a process of unit U1 with any andamento, alone or beside a second
\* andamento (concluded, due at the end of the second day, or of the other
\* process, of unit U2, and overdue from the second day on)
PrimeirosQ ==
  {AndamentoQ(1, st, pz, pg, at) :
     st \in Status, pz \in {NULL} \cup Prazos, pg \in {NULL} \cup Prazos,
     at \in BOOLEAN}

SegundosQ ==
  {AndamentoQ(1, "CONCLUIDO", DayLen - 1, NULL, TRUE),
   AndamentoQ(1, "EM_ANDAMENTO", 2 * DayLen - 1, NULL, TRUE),
   AndamentoQ(2, "EM_ANDAMENTO", DayLen - 1, NULL, TRUE)}

AndamentosQ ==
  {<<>>} \cup {<<a>> : a \in PrimeirosQ}
    \cup {<<a, b>> : a \in PrimeirosQ, b \in SegundosQ}

InitQ ==
  /\ processos \in {<<ProcessoQ(1, "U1", at), ProcessoQ(2, "U2", TRUE)>> :
                      at \in BOOLEAN}
  /\ andamentos \in AndamentosQ
  /\ now \in DayLen - 1 .. 2 * DayLen
  /\ last = NoLast
  /\ consulta = NoConsulta
  /\ unidades = UnidadesIniciais
  /\ usuarios = UsuariosIniciais
  /\ pedidos = PedidosIniciais

\* a query changes nothing but its answer; a behaviour asks one query
Consulta(op, u, vencendoHoje, atrasados, id, out, ids) ==
  /\ consulta = NoConsulta
  /\ consulta' = [op |-> op, u |-> u, vencendoHoje |-> vencendoHoje,
                   atrasados |-> atrasados, id |-> id, out |-> out,
                   ids |-> ids, total |-> Cardinality(ids)]
  /\ UNCHANGED <<processos, andamentos, now, last, unidades, usuarios, pedidos>>

ListarProcessos(vencendoHoje, atrasados, u) ==
  Consulta("buscarTudo", u, vencendoHoje, atrasados, 0, "ok",
           BuscarTudo(DbAtual, vencendoHoje, atrasados, u, now))

ContarVencendoHoje(u) ==
  Consulta("contarVencendoHoje", u, TRUE, FALSE, 0, "ok",
           VencendoHoje(DbAtual, u, now))

ContarAtrasados(u) ==
  Consulta("contarAtrasados", u, FALSE, TRUE, 0, "ok", Atrasados(DbAtual, u, now))

BuscarProcesso(pid, u) ==
  LET out == ProcessoBuscarPorId(DbAtual, pid, u)
  IN Consulta("buscarPorId", u, FALSE, FALSE, pid, out,
              IF out = "ok" THEN {pid} ELSE {})

BuscarProcessoPorNumeroSei(numero_sei, u) ==
  LET out == ProcessoBuscarPorNumeroSei(DbAtual, numero_sei, u)
  IN Consulta("buscarPorNumeroSei", u, FALSE, FALSE, numero_sei, out,
              IF out = "ok" THEN {numero_sei} ELSE {})

RequerentesQ == Requerentes \cup {NoUsuario}

NextQ ==
  \/ \E vh, at \in BOOLEAN, u \in RequerentesQ : ListarProcessos(vh, at, u)
  \/ \E u \in RequerentesQ : ContarVencendoHoje(u)
  \/ \E u \in RequerentesQ : ContarAtrasados(u)
  \/ \E pid \in ProcIdsQ \cup {NoProc, IdVazio}, u \in RequerentesQ :
        BuscarProcesso(pid, u)
  \/ \E n \in ProcIdsQ \cup {0, 3}, u \in RequerentesQ :
        BuscarProcessoPorNumeroSei(n, u)

SpecQ == InitQ /\ [][NextQ]_vars

----------------------------------------------------------------------------
(* Properties of the andamento update machine (Spec) *)

AtivosAgora == {i \in DOMAIN andamentos : andamentos[i].ativo}

Atualizou == last.op = "atualizar" /\ last.out = "ok"

\* C1: every andamento's stored status is the function of its stored
\* (prorrogacao, resposta): CONCLUIDO if resposta is set, else PRORROGADO if
\* prorrogacao is set, else EM_ANDAMENTO.
C1_StatusIsDerived ==
  \A i \in DOMAIN andamentos :
    andamentos[i].status
      = StatusDerivado(andamentos[i].prorrogacao, andamentos[i].resposta)

\* C4: an atualizar that sets resposta to a valid date leaves status CONCLUIDO,
\* whatever prorrogacao is stored and whatever prorrogacao the payload carries
\* (a date, null or nothing).
C4_RespostaSetConcluido ==
  (/\ last.op = "atualizar" /\ last.rc = "iso" /\ last.pr # "txt"
   /\ last.id \in DOMAIN andamentos /\ last.out # "NotFound")
    => /\ last.out = "ok"
       /\ andamentos[last.id].status = "CONCLUIDO"
       /\ andamentos[last.id].resposta # NULL

C4_Witness ==
  /\ Atualizou /\ last.rc = "iso" /\ last.pr = "undef"
  /\ andamentos[last.id].prorrogacao # NULL
  /\ andamentos[last.id].status = "CONCLUIDO"

\* C5: an atualizar that clears resposta (explicit null) while prorrogacao
\* remains set afterwards (kept from the stored state or set by the same
\* update) leaves status PRORROGADO.
C5_RespostaClearedProrrogado ==
  (Atualizou /\ last.rc = "null" /\ andamentos[last.id].prorrogacao # NULL)
    => andamentos[last.id].status = "PRORROGADO"

\* C6: an atualizar after which resposta and prorrogacao are both absent
\* (resposta cleared by the update, prorrogacao already null or cleared by the
\* same update) leaves status EM_ANDAMENTO.
C6_BothAbsentEmAndamento ==
  (Atualizou /\ last.rc = "null" /\ andamentos[last.id].prorrogacao = NULL)
    => /\ andamentos[last.id].status = "EM_ANDAMENTO"
       /\ andamentos[last.id].resposta = NULL

C6_Witness ==
  /\ Atualizou /\ last.rc = "null" /\ last.pr = "undef" /\ last.escreveu
  /\ andamentos[last.id].prorrogacao = NULL
  /\ andamentos[last.id].resposta = NULL
  /\ andamentos[last.id].status = "EM_ANDAMENTO"

C8_ProrrogacaoClearedEmAndamento ==
  (/\ last.op = "atualizar" /\ last.pr = "null" /\ last.rc # "iso"
   /\ last.id \in DOMAIN andamentos /\ last.out # "NotFound")
    => /\ last.out = "ok"
       /\ andamentos[last.id].status = "EM_ANDAMENTO"
       /\ andamentos[last.id].prorrogacao = NULL
       /\ andamentos[last.id].usuario_prorrogacao_id = NULL

C8_Witness ==
  /\ Atualizou /\ last.pr = "null" /\ last.rc \in {"undef", "null"}
  /\ last.escreveu
  /\ andamentos[last.id].status = "EM_ANDAMENTO"
  /\ andamentos[last.id].usuario_prorrogacao_id = NULL
  /\ andamentos[last.id].resposta = NULL

\* C9 as stated: every field omitted from an atualizar payload keeps its
\* stored value, and a payload without prorrogacao, resposta and conclusao
\* leaves prorrogacao, resposta, status and usuario_prorrogacao_id unchanged.
Omitido(x) == x.k = "undef"

MantemOmitidos(a, b, dto) ==
  /\ Omitido(dto.prorrogacao) => b.prorrogacao = a.prorrogacao
  /\ (Omitido(dto.resposta) /\ Omitido(dto.conclusao)) => b.resposta = a.resposta
  /\ (Omitido(dto.prorrogacao) /\ Omitido(dto.resposta) /\ Omitido(dto.conclusao))
       => /\ b.status = a.status
          /\ b.usuario_prorrogacao_id = a.usuario_prorrogacao_id
  /\ Omitido(dto.origem) => b.origem = a.origem
  /\ Omitido(dto.destino) => b.destino = a.destino
  /\ Omitido(dto.prazo) => b.prazo = a.prazo
  /\ Omitido(dto.data_envio) => b.data_envio = a.data_envio

C10_StatusNeverFromClient ==
  (last.op = "criar" /\ last.out = "ok")
    => andamentos[Len(andamentos)].status = "EM_ANDAMENTO"

----------------------------------------------------------------------------
(* Properties of the final-response flow (SpecRF) *)

EhRespostaFinal == last.op = "criarRespostaFinal"

\* C2 as stated: of two successive successful criarRespostaFinal calls with
\* identical (process id, date, text) exactly one andamento is created, and
\* the second call creates none and writes nothing.
C2_ExactlyOneCreated ==
  (EhRespostaFinal /\ last.rep /\ last.out = "ok" /\ last.outAntes = "ok")
    => /\ last.criadosAntes + last.criados = 1
       /\ last.criados = 0
       /\ ~last.escreveu

\* C2 amended: when a criarRespostaFinal call that passed validation is
\* repeated with identical (process id, date, text), the second call returns
\* normally, creates no andamento and writes nothing, and the two calls
\* together create at most one andamento.
C2_AtMostOneCreated ==
  (EhRespostaFinal /\ last.rep /\ last.outAntes \in {"ok", "Internal"})
    => /\ last.out = "ok"
       /\ last.criadosAntes + last.criados <= 1
       /\ last.criados = 0
       /\ ~last.escreveu

C2_Witness ==
  /\ EhRespostaFinal /\ last.rep /\ last.out = "ok" /\ last.outAntes = "ok"
  /\ last.criadosAntes = 1 /\ last.criados = 0
  /\ MesmaResposta(processos[last.id], NewDate(last.rf.data_resposta_final),
                   last.rf.resposta_final)

\* C3: a criarRespostaFinal call that fails persists nothing, and one that
\* writes the response fields in its transaction also creates the andamento.
C3_AllOrNothing ==
  EhRespostaFinal => (last.out # "ok" => ~last.escreveu)

----------------------------------------------------------------------------
(* Validation of an atualizar payload (Spec) *)

\* C11: an atualizar whose resposta (or conclusao) is present, not null and not
\* a valid date fails with BadRequest and leaves the andamento and its process
\* unchanged.
C11_InvalidRespostaRejected ==
  (/\ last.op = "atualizar" /\ last.rc = "txt"
   /\ last.id \in DOMAIN andamentos /\ last.out # "NotFound")
    => /\ last.out = "BadRequest"
       /\ ~last.escreveu

----------------------------------------------------------------------------
(* Properties of criarRespostaFinal (SpecRF) *)

RespondeuFinal == EhRespostaFinal /\ last.out = "ok"

\* C12: after every successful criarRespostaFinal the stored
\* unidade_respondida_id of the process equals the origem of the process,
\* whatever the caller supplied and whichever branch the call took.
C12_UnidadeRespondidaIsOrigem ==
  RespondeuFinal
    => processos[last.id].unidade_respondida_id = processos[last.id].origem

\* C13: criarRespostaFinal fails with NotFound when the process does not
\* exist and with BadRequest when the process is inactive or has no active
\* andamento; in each case nothing is written and no andamento is created.
C13_RespostaFinalPreconditions ==
  EhRespostaFinal
    => /\ last.id \notin ProcIds
            => (last.out = "NotFound" /\ ~last.escreveu /\ last.criados = 0)
       /\ (/\ last.id \in ProcIds
           /\ (~processos[last.id].ativo \/ AndamentosAtivos(DbAtual, last.id) = {}))
            => (last.out = "BadRequest" /\ ~last.escreveu /\ last.criados = 0)

C13_Witness ==
  /\ EhRespostaFinal /\ last.id \in ProcIds
  /\ ~processos[last.id].ativo
  /\ AndamentosAtivos(DbAtual, last.id) # {}
  /\ last.out = "BadRequest" /\ ~last.escreveu

\* the call passed the checks on the process and its andamentos
RespostaFinalAdmitida ==
  /\ EhRespostaFinal /\ last.id \in ProcIds
  /\ processos[last.id].ativo
  /\ AndamentosAtivos(DbAtual, last.id) # {}

\* C14: criarRespostaFinal rejects with BadRequest, writing nothing, every
\* response date strictly after the last instant of the current day, and
\* accepts every date at or before it (today 23:59:59.999 is accepted,
\* tomorrow 00:00:00 is rejected).  A date is after the end of today exactly
\* when its day is a later day.
Dia(t) == t \div DayLen

AmanhaZeroHora == (Dia(now) + 1) * DayLen

C14_DateBoundary ==
  RespostaFinalAdmitida
    => IF Dia(NewDate(last.rf.data_resposta_final)) > Dia(now)
       THEN last.out = "BadRequest" /\ ~last.escreveu /\ last.criados = 0
       ELSE last.out # "BadRequest"

C14_Witness ==
  /\ RespostaFinalAdmitida
  /\ NewDate(last.rf.data_resposta_final) = AmanhaZeroHora
  /\ last.out = "BadRequest" /\ ~last.escreveu

\* the other side of the boundary: the last instant of today is accepted
C14_AcceptedAtEndOfDay ==
  /\ RespostaFinalAdmitida
  /\ NewDate(last.rf.data_resposta_final) = AmanhaZeroHora - 1
  /\ last.out = "ok" /\ last.criados = 1

\* C15: when criarRespostaFinal finds an active CONCLUIDO andamento whose
\* observacao is the response text and whose data_envio is the response date,
\* it creates no andamento and writes only the response fields of the process
\* that are null: a field that is already set keeps its value.
C15_BackfillOnlyMissing ==
  \A dto \in RespostaFinalDtos :
    LET pid == dto.processo_id
        r == CriarRespostaFinal(DbAtual, dto, Editor, now, FALSE)
        p == processos[pid]
        q == r.db.processos[pid]
    IN (/\ pid \in ProcIds
        /\ r.out = "ok"
        /\ ConclusaoExistente(DbAtual, pid, NewDate(dto.data_resposta_final),
                              dto.resposta_final) # {})
         => /\ r.criados = 0
            /\ r.db.andamentos = andamentos
            /\ p.data_resposta_final # NULL
                 => q.data_resposta_final = p.data_resposta_final
            /\ p.resposta_final # NULL => q.resposta_final = p.resposta_final
            /\ p.unidade_respondida_id # NULLSTR
                 => q.unidade_respondida_id = p.unidade_respondida_id

\* C20: processo remover on a process with at least one active andamento
\* fails with BadRequest and leaves the process active; it sets ativo = false
\* only when the process has no active andamento.
C20_NoRemoveWithActiveAndamentos ==
  (last.op = "removerProcesso" /\ last.id \in ProcIds)
    => /\ (processos[last.id].ativo /\ AndamentosAtivos(DbAtual, last.id) # {})
            => (last.out = "BadRequest" /\ ~last.escreveu)
       /\ last.out = "ok"
            => (/\ ~processos[last.id].ativo
                /\ AndamentosAtivos(DbAtual, last.id) = {})

C20_Witness ==
  /\ last.op = "removerProcesso" /\ last.id \in ProcIds
  /\ processos[last.id].ativo
  /\ AndamentosAtivos(DbAtual, last.id) # {}
  /\ last.out = "BadRequest"

----------------------------------------------------------------------------
(* Properties of the read operations (SpecQ) *)

\* the deadline that counts: prorrogacao when there is one, else prazo
PrazoEfetivo(a) == IF a.prorrogacao # NULL THEN a.prorrogacao ELSE a.prazo

\* the active andamentos of a process that are still EM_ANDAMENTO
EmAndamento(pid) ==
  {i \in DOMAIN andamentos :
     /\ andamentos[i].processo_id = pid
     /\ andamentos[i].ativo
     /\ andamentos[i].status = "EM_ANDAMENTO"}

DevidoHoje(pid) ==
  /\ processos[pid].ativo
  /\ \E i \in EmAndamento(pid) :
       /\ PrazoEfetivo(andamentos[i]) # NULL
       /\ PrazoEfetivo(andamentos[i]) >= InicioDoDia(now)
       /\ PrazoEfetivo(andamentos[i]) <= FimDoDia(now)

EmAtraso(pid) ==
  /\ processos[pid].ativo
  /\ \E i \in EmAndamento(pid) :
       /\ PrazoEfetivo(andamentos[i]) # NULL
       /\ PrazoEfetivo(andamentos[i]) < InicioDoDia(now)

\* the requester is DEV or ADM, or nobody is identified
Privilegiado(u) == u = NoUsuario \/ u.permissao \in {"DEV", "ADM"}

Visivel(pid, u) == Privilegiado(u) \/ processos[pid].unidade_id = u.unidade_id

PedeVencendoHoje ==
  \/ consulta.op = "contarVencendoHoje"
  \/ consulta.op = "buscarTudo" /\ consulta.vencendoHoje /\ ~consulta.atrasados

PedeAtrasados ==
  \/ consulta.op = "contarAtrasados"
  \/ consulta.op = "buscarTudo" /\ consulta.atrasados /\ ~consulta.vencendoHoje

\* C16: a process the requester may see is in the due-today set (buscarTudo
\* with vencendoHoje, contarVencendoHoje) if and only if it is active and has
\* an active EM_ANDAMENTO andamento whose effective deadline (prorrogacao if
\* non-null, else prazo) lies within today, first and last instant included.
C16_DueToday ==
  PedeVencendoHoje
    => /\ \A pid \in DOMAIN processos :
            pid \in consulta.ids <=> (Visivel(pid, consulta.u) /\ DevidoHoje(pid))
       /\ consulta.total
            = Cardinality({pid \in DOMAIN processos :
                             Visivel(pid, consulta.u) /\ DevidoHoje(pid)})

C16_Witness ==
  /\ consulta.op = "contarVencendoHoje" /\ consulta.total = 1
  /\ Len(andamentos) = 1
  /\ andamentos[1].prorrogacao = FimDoDia(now)
  /\ andamentos[1].prazo < InicioDoDia(now) /\ andamentos[1].prazo # NULL

\* C17: a process the requester may see is in the overdue set (buscarTudo
\* with atrasados, contarAtrasados) if and only if it is active and has an
\* active EM_ANDAMENTO andamento whose effective deadline is strictly before
\* the first instant of today; a process whose only andamento has prazo =
\* yesterday, no prorrogacao and status EM_ANDAMENTO is overdue and not due
\* today.
C17_Overdue ==
  /\ PedeAtrasados
       => /\ \A pid \in DOMAIN processos :
               pid \in consulta.ids <=> (Visivel(pid, consulta.u) /\ EmAtraso(pid))
          /\ consulta.total
               = Cardinality({pid \in DOMAIN processos :
                                Visivel(pid, consulta.u) /\ EmAtraso(pid)})
  /\ (/\ Len(andamentos) = 1
      /\ InicioDoDia(now) > 0
      /\ andamentos[1] = AndamentoQ(1, "EM_ANDAMENTO", InicioDoDia(now) - 1, NULL, TRUE)
      /\ processos[1].ativo /\ Visivel(1, consulta.u))
       => /\ PedeAtrasados => 1 \in consulta.ids
          /\ PedeVencendoHoje => 1 \notin consulta.ids

C17_Witness ==
  /\ consulta.op = "buscarTudo" /\ consulta.atrasados /\ ~consulta.vencendoHoje
  /\ consulta.ids = {1}
  /\ InicioDoDia(now) > 0
  /\ andamentos = <<AndamentoQ(1, "EM_ANDAMENTO", InicioDoDia(now) - 1, NULL, TRUE)>>

\* C18: a process none of whose active andamentos has status EM_ANDAMENTO is
\* in neither the due-today set nor the overdue set, whatever its prazo and
\* prorrogacao dates (only CONCLUIDO andamentos; prazo = yesterday with
\* prorrogacao = tomorrow and status PRORROGADO).
C18_NotEmAndamentoNeither ==
  (/\ consulta.op \in {"buscarTudo", "contarVencendoHoje", "contarAtrasados"}
   /\ (consulta.vencendoHoje \/ consulta.atrasados))
    => \A pid \in consulta.ids : EmAndamento(pid) # {}

C18_Witness ==
  /\ consulta.op = "buscarTudo" /\ consulta.vencendoHoje /\ consulta.atrasados
  /\ consulta.u = NoUsuario
  /\ processos[1].ativo
  /\ InicioDoDia(now) > 0
  /\ andamentos = <<AndamentoQ(1, "PRORROGADO", InicioDoDia(now) - 1,
                               FimDoDia(now) + 1, TRUE)>>
  /\ consulta.ids = {}

\* the process a buscarPorId or buscarPorNumeroSei request names
Procurados ==
  IF consulta.op = "buscarPorId" THEN {consulta.id} \cap DOMAIN processos
  ELSE IF consulta.op = "buscarPorNumeroSei"
       THEN {pid \in DOMAIN processos : processos[pid].numero_sei = consulta.id}
  ELSE {}

\* C19: for a requester whose role is not DEV or ADM, every process returned
\* by buscarTudo or counted by contarVencendoHoje and contarAtrasados is
\* owned by the requester's unit, and buscarPorId or buscarPorNumeroSei on an
\* (active) process of another unit fails with Forbidden; DEV and ADM see the
\* processes of every unit.
C19_OwnUnitOnly ==
  /\ (/\ consulta.op \in {"buscarTudo", "contarVencendoHoje", "contarAtrasados"}
      /\ ~Privilegiado(consulta.u))
       => \A pid \in consulta.ids :
            processos[pid].unidade_id = consulta.u.unidade_id
  /\ \A pid \in Procurados :
       /\ (~Privilegiado(consulta.u)
           /\ processos[pid].unidade_id # consulta.u.unidade_id)
            => /\ consulta.out # "ok"
               /\ consulta.ids = {}
               /\ processos[pid].ativo => consulta.out = "Forbidden"
       /\ (consulta.u \in Requerentes /\ Privilegiado(consulta.u)
           /\ processos[pid].ativo)
            => consulta.out = "ok"
  /\ (/\ consulta.op = "buscarTudo"
      /\ ~consulta.vencendoHoje /\ ~consulta.atrasados
      /\ consulta.u \in Requerentes /\ Privilegiado(consulta.u))
       => consulta.ids = {pid \in DOMAIN processos : processos[pid].ativo}

C19_Witness ==
  /\ consulta.op = "buscarPorId" /\ consulta.id = 2
  /\ consulta.u = [permissao |-> "TEC", unidade_id |-> "U1"]
  /\ processos[2].ativo
  /\ consulta.out = "Forbidden"

----------------------------------------------------------------------------
(* Properties of the dedicated operations (SpecOps) and the batch (SpecLote) *)

\* erros names exactly the ids of `ids` at the positions of `falhas`, in order
RECURSIVE NomeiaFalhas(_, _, _)
NomeiaFalhas(ids, i, erros) ==
  IF i > Len(ids) THEN erros = <<>>
  ELSE \/ erros # <<>> /\ Head(erros) = ids[i]
          /\ NomeiaFalhas(ids, i + 1, Tail(erros))
       \/ NomeiaFalhas(ids, i + 1, erros)

\* a lote request with a list of ids, a valid operation and, for prorrogar,
\* its date
LoteBemFormado ==
  /\ last.op = "lote" /\ Len(last.ids) > 0
  /\ last.operacao = "prorrogar" => last.pr = "iso"

\* C23: lote has partial-success semantics: the call returns normally, every
\* id is processed in list order whatever happened to the ids before it, a
\* malformed or failing id adds one error entry naming it, and processados
\* plus the number of error entries is the number of ids.
C23_LotePartialSuccess ==
  LoteBemFormado
    => /\ last.out = "ok"
       /\ last.processados + Len(last.erros) = Len(last.ids)
       /\ NomeiaFalhas(last.ids, 1, last.erros)
       /\ \A i \in 1 .. Len(last.ids) :
            /\ last.ids[i] = 0 => \E j \in 1 .. Len(last.erros) : last.erros[j] = 0
            /\ (last.ids[i] \in DOMAIN andamentos /\ last.operacao = "excluir")
                 => ~andamentos[last.ids[i]].ativo
            /\ (/\ last.ids[i] \in DOMAIN andamentos
                /\ last.operacao = "concluir"
                /\ andamentos[last.ids[i]].ativo)
                 => andamentos[last.ids[i]].status = "CONCLUIDO"

C23_Witness ==
  /\ last.op = "lote" /\ last.out = "ok"
  /\ last.ids = <<1, 0>>
  /\ last.processados = 1
  /\ last.erros = <<0>>

\* the malformed id comes first and the id after it is still processed
C23_LaterIdProcessed ==
  /\ last.op = "lote" /\ last.out = "ok" /\ last.operacao = "excluir"
  /\ last.ids = <<0, 1>>
  /\ last.processados = 1
  /\ last.erros = <<0>>
  /\ ~andamentos[1].ativo

\* the request addressed an andamento that exists and is active
AlvoAtivo == last.id \in DOMAIN andamentos /\ andamentos[last.id].ativo

C24_Accepted ==
  /\ last.op = "prorrogar" /\ AlvoAtivo
  /\ last.data = now + 1
  /\ last.antes = "CONCLUIDO"
  /\ andamentos[last.id].status = "PRORROGADO"

C24_AtualizarPast ==
  /\ last.op = "atualizar" /\ AlvoAtivo
  /\ last.data < now
  /\ last.out = "ok"
  /\ andamentos[last.id].prorrogacao = last.data

\* C25: concluir on an active andamento whose status is CONCLUIDO fails with
\* BadRequest and changes nothing; on any other active andamento it sets
\* resposta to the current time and status to CONCLUIDO, so that a concluir
\* that follows a successful one on the same andamento fails.
C25_ConcluirOnce ==
  (last.op = "concluir" /\ AlvoAtivo)
    => /\ last.antes = "CONCLUIDO" => last.out = "BadRequest" /\ ~last.escreveu
       /\ last.antes # "CONCLUIDO"
            => /\ last.out = "ok"
               /\ andamentos[last.id].resposta = now
               /\ andamentos[last.id].status = "CONCLUIDO"
       /\ last.out = "ok"
            => AndamentoConcluir(DbAtual, last.id, Editor, now).out = "BadRequest"

\* the second concluir: the andamento was already CONCLUIDO with a response
C25_Witness ==
  /\ last.op = "concluir" /\ AlvoAtivo
  /\ last.antes = "CONCLUIDO"
  /\ last.out = "BadRequest"
  /\ andamentos[last.id].resposta # NULL

C25_Concluded ==
  /\ last.op = "concluir" /\ AlvoAtivo
  /\ last.antes = "PRORROGADO"
  /\ last.out = "ok"
  /\ andamentos[last.id].status = "CONCLUIDO"

----------------------------------------------------------------------------
(* Properties of the backfill done by andamento atualizar (SpecRU) *)

\* what an atualizar that sets a resposta has to leave in the process `p` of
\* the andamento `a`
AposBackfill(p, a, dto) ==
  LET semData == p.data_resposta_final = NULL
      semTexto == p.resposta_final = NULL /\ dto.observacao.k = "txt"
  IN [p EXCEPT
        !.data_resposta_final = IF semData THEN dto.resposta.v ELSE @,
        !.resposta_final = IF semTexto THEN dto.observacao.v ELSE @,
        !.unidade_respondida_id = IF semData \/ semTexto THEN a.destino ELSE @]

\* C26: an atualizar that sets resposta updates the andamento and backfills
\* its process in one step, and the backfill never overwrites a response the
\* process has: data_resposta_final is written only if it was null,
\* resposta_final only if it was null and the update carries an observacao,
\* unidade_respondida_id becomes the andamento's destino exactly when one of
\* the two is written; nothing else of the process changes.
C26_BackfillKeepsExisting ==
  \A id \in AtivosAgora, dto \in ResponderDtos :
    LET r == AndamentoAtualizar(DbAtual, id, dto, Editor)
        pid == andamentos[id].processo_id
    IN /\ r.out = "ok"
       /\ r.db.andamentos[id].resposta = dto.resposta.v
       /\ r.db.processos =
            [processos EXCEPT ![pid] = AposBackfill(@, andamentos[id], dto)]

\* an atualizar has set a resposta on an andamento whose process already had
\* another response date, and the process kept its own
C26_Witness ==
  /\ Atualizou /\ last.rc = "iso" /\ AlvoAtivo
  /\ andamentos[last.id].resposta # NULL
  /\ LET p == processos[andamentos[last.id].processo_id]
     IN /\ p.data_resposta_final # NULL
        /\ p.data_resposta_final # andamentos[last.id].resposta
        /\ p.unidade_respondida_id # andamentos[last.id].destino

----------------------------------------------------------------------------
(* Properties that relate a process and its andamentos *)

\* C27: a process whose data_resposta_final is set has at least one active
\* andamento with status CONCLUIDO.
C27_RespondedHasConcluido ==
  \A pid \in ProcIds :
    processos[pid].data_resposta_final # NULL
      => \E i \in AtivosAgora : /\ andamentos[i].processo_id = pid
                                /\ andamentos[i].status = "CONCLUIDO"

\* C29: no inactive (soft-deleted) process owns an active andamento.
C29_InactiveProcessHasNoActiveAndamento ==
  \A pid \in ProcIds :
    ~processos[pid].ativo => AndamentosAtivos(DbAtual, pid) = {}

----------------------------------------------------------------------------
(* Properties of the units (SpecUn) *)

\* the unit has an active user or an active process
Ocupada(id) ==
  \/ \E i \in DOMAIN usuarios : usuarios[i].unidade_id = id /\ usuarios[i].status
  \/ \E pid \in DOMAIN processos :
       processos[pid].unidade_id = id /\ processos[pid].ativo

\* C21: unidade remover on an active unit fails with BadRequest and leaves the
\* unit active when an active user or an active process belongs to it, and
\* sets ativo = false otherwise; it writes nothing else.
C21_UnitDeactivation ==
  [][(/\ last'.op = "removerUnidade"
      /\ last'.unidade \in DOMAIN unidades
      /\ unidades[last'.unidade].ativo)
       => /\ IF Ocupada(last'.unidade)
             THEN last'.out = "BadRequest" /\ unidades' = unidades
             ELSE /\ last'.out = "ok"
                  /\ unidades' = [unidades EXCEPT ![last'.unidade].ativo = FALSE]
          /\ UNCHANGED <<usuarios, processos, andamentos>>]_vars

\* a unit without active users was kept because of its active process
C21_Witness ==
  /\ last.op = "removerUnidade" /\ last.out = "BadRequest"
  /\ unidades[last.unidade].ativo
  /\ \A i \in DOMAIN usuarios :
       usuarios[i].unidade_id = last.unidade => ~usuarios[i].status
  /\ \E pid \in DOMAIN processos :
       processos[pid].unidade_id = last.unidade /\ processos[pid].ativo

\* a unit whose only user was excluded and whose only process was removed
C21_Deactivated ==
  /\ last.op = "removerUnidade" /\ last.out = "ok"
  /\ last.unidade = "U1"
  /\ ~unidades["U1"].ativo
  /\ \E i \in DOMAIN usuarios : usuarios[i].unidade_id = "U1"
  /\ ~processos[1].ativo

C21_KeptForUser ==
  /\ last.op = "removerUnidade" /\ last.out = "BadRequest"
  /\ last.unidade = "U2"
  /\ unidades["U2"].ativo
  /\ \E i \in DOMAIN usuarios : usuarios[i].unidade_id = "U2" /\ usuarios[i].status

----------------------------------------------------------------------------
(* Properties of the processes (SpecProc) *)

\* the numero_sei is held by a process other than `pid`
Detido(pid, numero_sei) ==
  \E q \in DOMAIN processos \ {pid} : processos[q].numero_sei = numero_sei

C22_Placeholder ==
  /\ last.op = "criarProcesso" /\ last.out = "ok" /\ last.sei = NULL
  /\ Len(processos) = 2
  /\ processos[2].numero_sei \in Rascunhos

C22_AtualizarRefused ==
  /\ last.op = "atualizarProcesso" /\ last.out = "BadRequest"
  /\ last.id \in DOMAIN processos
  /\ Detido(last.id, last.sei)

\* the request was refused by the unique index, not by the handler's lookup
C22_IndexRefused ==
  /\ last.op = "atualizarProcesso" /\ last.out = "Internal"
  /\ last.sei = 0
  /\ Detido(last.id, 0)

\* C30: a requester whose role is not DEV or ADM cannot modify a process of
\* another unit: atualizar, remover and criarRespostaFinal on such a process
\* fail with Forbidden and leave the process and its andamentos unchanged.
C30_OtherUnitCannotModify ==
  (/\ last.op \in {"atualizarProcesso", "removerProcesso", "criarRespostaFinal"}
   /\ last.id \in DOMAIN processos
   /\ processos[last.id].ativo \/ last.escreveu
   /\ last.quem # NoUsuario /\ last.quem.permissao \notin {"DEV", "ADM"}
   /\ processos[last.id].unidade_id # last.quem.unidade_id)
    => last.out = "Forbidden" /\ ~last.escreveu

----------------------------------------------------------------------------
(* Properties of concurrent criarRespostaFinal requests (SpecConc) *)

\* the terminal andamentos of the process with the note and the send date of
\* the requests
TerminaisDoPedido ==
  {i \in DOMAIN andamentos :
     /\ andamentos[i].processo_id = PedidoRF.processo_id
     /\ andamentos[i].ativo
     /\ andamentos[i].status = "CONCLUIDO"
     /\ andamentos[i].origem = andamentos[i].destino
     /\ andamentos[i].observacao = PedidoRF.resposta_final
     /\ andamentos[i].data_envio = NewDate(PedidoRF.data_resposta_final)}

\* C28: under any interleaving of two criarRespostaFinal requests with
\* identical (process id, date, text) on a process that has no response yet,
\* at most one terminal CONCLUIDO andamento with that note and send date is
\* created for the process.
C28_AtMostOneTerminal == Cardinality(TerminaisDoPedido) <= 1

====
